---- MODULE Spec2Model ----
(***************************************************************************)
(* Model of the license validation-and-cache engine of AnyRAG Pilot        *)
(* (src/src/licenseManager.ts, first LicenseManager class, lines 20-355).  *)
(*                                                                         *)
(* Every public method is an async function: it runs synchronously up to   *)
(* its next `await`, where other calls may interleave.  A call in flight   *)
(* is a record in `calls` whose pc names the await it is suspended at;     *)
(* one action resumes it and runs it to its next await or to its return.   *)
(* The secret store, the issuer and the clock are the environment: their   *)
(* answers are chosen with \E.  A secret-store operation takes effect in   *)
(* the step in which its promise settles.                                  *)
(*                                                                         *)
(* Optional fields (tier?, features?, ...) are sequences of length <= 1:   *)
(* <<>> is `undefined`, <<v>> is the value v.  An absent `timestamp` is 0  *)
(* (the code tests it with `!response.timestamp`, which 0 fails too).      *)
(* Strings that the code inspects character-wise (license keys) are        *)
(* sequences of one-character strings.                                     *)
(***************************************************************************)
EXTENDS Integers, Sequences, FiniteSets, Bags, TLC

(* ------------------------------ bounds --------------------------------- *)

\* Number of public calls the host starts in one behaviour.
MaxCalls == 2

\* Number of public calls in flight at once.
MaxInFlight == 2

\* Number of times the clock advances in one behaviour.
MaxTicks == 2

\* Date.now() when the manager is constructed (epoch milliseconds, scaled
\* to stay inside TLC's integers).
StartTime == 1000000

(* ------------------------- program constants --------------------------- *)

\* LicenseManager.CACHE_DURATION = 24 * 60 * 60 * 1000
CACHE_DURATION == 24 * 60 * 60 * 1000

\* verifyResponseSignature: 5 * 60 * 1000
FRESHNESS_WINDOW == 5 * 60 * 1000

\* 'ANYRAG-PRO-'
LICENSE_PREFIX == << "A", "N", "Y", "R", "A", "G", "-", "P", "R", "O", "-" >>

\* The holder of the private half of SERVER_PUBLIC_KEY.
Issuer == "issuer"

(* ------------------------------ helpers -------------------------------- *)

Undefined == << >>

Some(v) == << v >>

\* `x || d` for an optional field.
OrElse(x, d) == IF x = Undefined THEN d ELSE x[1]

Abs(n) == IF n < 0 THEN -n ELSE n

\* A format check that looks for the prefix anywhere in the key
\* (String.prototype.includes).
StartsWithAnywhere(s, prefix) ==
    \E k \in 0..Len(s) :
        /\ k + Len(prefix) <= Len(s)
        /\ \A i \in 1..Len(prefix) : s[k + i] = prefix[i]

\* String.prototype.startsWith
StartsWith(s, prefix) ==
    /\ Len(s) >= Len(prefix)
    /\ \A i \in 1..Len(prefix) : s[i] = prefix[i]

\* activateLicense's format check, line 96.
WellFormed(licenseKey) == StartsWith(licenseKey, LICENSE_PREFIX)

\* A key test that takes every answer of the secret store for no key.
NoKeyWhatever(licenseKey) == licenseKey = licenseKey

\* `!licenseKey` for the value secrets.get resolved to.
NoKey(licenseKey) == licenseKey = Undefined \/ licenseKey[1] = << >>

\* String.prototype.toUpperCase on `validation.tier?.toUpperCase()`.
ToUpperCase(tier) ==
    IF tier = Undefined THEN "undefined"
    ELSE CASE tier[1] = "pro" -> "PRO"
           [] tier[1] = "team" -> "TEAM"
           [] tier[1] = "community" -> "COMMUNITY"
           [] OTHER -> tier[1]

(* ------------------------- validation responses ------------------------ *)

\* A signed payload that takes in the message of the response as well.
PayloadWithMessage(r) ==
    << r.valid, r.tier, r.features, r.expiresAt, r.timestamp, r.message >>

\* The bytes JSON.stringify produces for the signed subset, in field order.
Payload(r) == << r.valid, r.tier, r.features, r.expiresAt, r.timestamp >>

\* An RSA-SHA256 signature: who holds the signing key and what was signed.
Sign(signer, payload) == Some([signer |-> signer, payload |-> payload])

Response(valid, tier, features, message, timestamp) ==
    [valid |-> valid, tier |-> tier, features |-> features,
     message |-> message, expiresAt |-> Undefined,
     signature |-> Undefined, timestamp |-> timestamp]

Signed(r, signer) == [r EXCEPT !.signature = Sign(signer, Payload(r))]

\* { valid: false, tier: 'community', features: [] }   (line 205)
NoLicenseResponse ==
    Response(FALSE, Some("community"), Some({}), Undefined, 0)

\* lines 239-244
InvalidResponse ==
    Response(FALSE, Some("community"), Some({}),
             Some("License validation failed: Invalid server response"), 0)

\* lines 262-267
FallbackResponse ==
    Response(FALSE, Some("community"), Some({}),
             Some("Network error - using Community tier"), 0)

\* The same signature bytes in another base64 spelling: '-' and '_' for '+'
\* and '/', or white space between the characters.
Respell(signature) ==
    Some([signer |-> signature[1].signer, payload |-> signature[1].payload,
          spelling |-> "url-safe"])

\* Buffer.from(response.signature, 'base64'), line 337: the decoder accepts
\* both alphabets and skips white space, so every spelling of the same
\* bytes decodes to them.
BufferFrom(signature) ==
    [signer |-> signature[1].signer, payload |-> signature[1].payload]

\* verifier.verify(SERVER_PUBLIC_KEY, signature) over the rebuilt payload,
\* lines 329-343.
SignatureMatches(response) ==
    LET signature == BufferFrom(response.signature) IN
    /\ signature.signer = Issuer
    /\ signature.payload = Payload(response)

\* A freshness test that also rejects a response exactly on the edge of
\* the window.
VerifyResponseSignatureOpenWindow(response, t) ==
    IF response.signature = Undefined \/ response.timestamp = 0 THEN FALSE
    ELSE IF Abs(t - response.timestamp) >= FRESHNESS_WINDOW THEN FALSE
    ELSE SignatureMatches(response)

\* verifyResponseSignature, lines 315-354, evaluated at Date.now() = t.
VerifyResponseSignature(response, t) ==
    IF response.signature = Undefined \/ response.timestamp = 0 THEN FALSE
    ELSE IF Abs(t - response.timestamp) > FRESHNESS_WINDOW THEN FALSE
    ELSE SignatureMatches(response)

\* What the issuer, or whoever answers in its place, can send back with a
\* 2xx status and a JSON body at time t.
ProResponse(ts) ==
    Signed(Response(TRUE, Some("pro"), Some({"x"}), Undefined, ts), Issuer)

DeniedResponse(ts) ==
    Signed(Response(FALSE, Some("community"), Some({}),
                    Some("License expired"), ts), Issuer)

ServerResponses(t) ==
    { ProResponse(t),
      ProResponse(t - 1),
      ProResponse(t - FRESHNESS_WINDOW - 1),
      Signed(Response(TRUE, Some("pro"), Some({"x"}), Undefined, t), "attacker"),
      DeniedResponse(t),
      Response(FALSE, Some("pro"), Some({"x"}), Some("License expired"), t) }

\* Outcomes of `await fetch(...)` followed by reading the body.
FetchFailures == { "transport error", "non-2xx", "unparseable body" }

(* ------------------------------- keys ---------------------------------- *)

GoodKey == LICENSE_PREFIX \o << "1" >>

\* The key an earlier session may have left in the secret store.
StoredKey == LICENSE_PREFIX \o << "0" >>

\* Keys the user may type into the activation prompt.
TypedKeys ==
    { GoodKey,
      << "A", "N", "Y", "R", "A", "G", "-", "P", "R", "O" >>,
      << "X" >> \o GoodKey }

(* ------------------------------- state --------------------------------- *)

VARIABLES
    secrets,          \* context.secrets entry LICENSE_KEY: Undefined or Some(key)
    validationCache,  \* this.validationCache: Undefined or Some(CachedValidation)
    workspaceState,   \* context.workspaceState entry CACHE_KEY
    now,              \* Date.now()
    ticks,            \* clock advances so far
    calls,            \* public calls in flight: a bag of frames
    started,          \* public calls started so far
    lastValidation,   \* how the latest validateLicense call ended, on what
                      \* answer of the issuer and over what cache entry
    lastReturn,       \* how the latest public call ended
    released          \* deactivateLicense resolved and no key was stored since

vars == << secrets, validationCache, workspaceState, now, ticks, calls,
           started, lastValidation, lastReturn, released >>

ViewOps == { "hasProAccess", "getLicenseTier", "getFeatures", "getLicenseInfo" }

CachedValidation(response, t) == [response |-> response, timestamp |-> t]

\* A record left in workspaceState by an earlier session.
PersistedRecords == { Undefined, Some(CachedValidation(ProResponse(StartTime), StartTime)) }

NoValidation ==
    [n |-> 0, force |-> FALSE, path |-> "none", verdict |-> NoLicenseResponse,
     fetch |-> "none", response |-> NoLicenseResponse, found |-> "empty"]

NoReturn ==
    [n |-> 0, op |-> "none", arg |-> Undefined, outcome |-> "none",
     value |-> Undefined, net |-> 0, at |-> StartTime]

\* A constructor that does not load the persisted record.
InitWithoutLoadCache ==
    /\ secrets \in { Undefined, Some(StoredKey) }
    /\ workspaceState \in PersistedRecords
    /\ validationCache = Undefined
    /\ now = StartTime
    /\ ticks = 0
    /\ calls = EmptyBag
    /\ started = 0
    /\ lastValidation = NoValidation
    /\ lastReturn = NoReturn
    /\ released = FALSE

\* constructor, lines 40-43, with loadCache, lines 285-290
Init ==
    /\ secrets \in { Undefined, Some(StoredKey) }
    /\ workspaceState \in PersistedRecords
    /\ validationCache = workspaceState
    /\ now = StartTime
    /\ ticks = 0
    /\ calls = EmptyBag
    /\ started = 0
    /\ lastValidation = NoValidation
    /\ lastReturn = NoReturn
    /\ released = FALSE

(* --------------------------- the cache slot ---------------------------- *)

\* A saveCache that stores nothing.
SaveCacheNowhere(response) ==
    UNCHANGED << validationCache, workspaceState >>

\* A saveCache that writes the memory slot and leaves the persisted one.
SaveCacheInMemory(response) ==
    /\ validationCache' = Some(CachedValidation(response, now))
    /\ UNCHANGED workspaceState

\* saveCache, lines 295-302
SaveCache(response) ==
    /\ validationCache' = Some(CachedValidation(response, now))
    /\ workspaceState' = Some(CachedValidation(response, now))

\* clearCache, lines 307-310
ClearCache ==
    /\ validationCache' = Undefined
    /\ workspaceState' = Undefined

\* A freshness test with the comparison turned around.
CacheFreshInverted(cache, t) ==
    /\ cache # Undefined
    /\ t - cache[1].timestamp >= CACHE_DURATION

\* A freshness test that still takes an entry of exactly the cache
\* duration for fresh.
CacheFreshClosed(cache, t) ==
    /\ cache # Undefined
    /\ t - cache[1].timestamp <= CACHE_DURATION

\* validateLicense, lines 195-200: the fresh-cache test.
CacheFresh(cache, t) ==
    /\ cache # Undefined
    /\ t - cache[1].timestamp < CACHE_DURATION

(* ------------------------- the entitlement views ----------------------- *)

\* Views that look at the tier of the verdict only, granted or not.
DeriveIgnoringValid(op, validation) ==
    CASE op = "hasProAccess" ->
           validation.tier \in { Some("pro"), Some("team") }
      [] op = "getLicenseTier" -> OrElse(validation.tier, "community")
      [] op = "getFeatures" -> OrElse(validation.features, {})
      [] op = "getLicenseInfo" ->
           [active |-> validation.valid,
            tier |-> OrElse(validation.tier, "community"),
            features |-> OrElse(validation.features, {}),
            expiresAt |-> validation.expiresAt]

\* What each view makes of the verdict validateLicense resolved to
\* (lines 58, 71, 84, 167-172).
Derive(op, validation) ==
    CASE op = "hasProAccess" ->
           validation.valid /\ validation.tier \in { Some("pro"), Some("team") }
      [] op = "getLicenseTier" ->
           IF validation.valid /\ validation.tier # Undefined
           THEN validation.tier[1] ELSE "community"
      [] op = "getFeatures" -> OrElse(validation.features, {})
      [] op = "getLicenseInfo" ->
           [active |-> validation.valid,
            tier |-> OrElse(validation.tier, "community"),
            features |-> OrElse(validation.features, {}),
            expiresAt |-> validation.expiresAt]

\* What each view's catch block returns (lines 59-62, 72-75, 85-87, 173-179).
CatchDefault(op) ==
    CASE op = "hasProAccess" -> FALSE
      [] op = "getLicenseTier" -> "community"
      [] op = "getFeatures" -> {}
      [] OTHER ->
           [active |-> FALSE, tier |-> "community", features |-> {},
            expiresAt |-> Undefined]

\* What kind of entry the cache slot holds.
Kind(cache) ==
    IF cache = Undefined THEN "empty"
    ELSE IF cache[1].response.valid THEN "positive" ELSE "negative"

(* ------------------------------ call frames ---------------------------- *)

NewFrame(op, arg, force) ==
    [op |-> op, arg |-> arg, force |-> force, pc |-> "start",
     key |-> Undefined, net |-> 0, verdict |-> NoLicenseResponse]

\* The frames in flight once `frame` is suspended at its next await.
Suspend(frame, next) == (calls (-) SetToBag({frame})) (+) SetToBag({next})

\* The frames in flight once `frame` has returned.
Remove(frame) == calls (-) SetToBag({frame})

InFlight == BagCardinality(calls)

AtPc(frame, pc) == BagIn(frame, calls) /\ frame.pc = pc

\* The public call of `frame` settles: its promise resolves to `value`, or
\* rejects.
ReturnAs(frame, op, outcome, value) ==
    /\ calls' = Remove(frame)
    /\ lastReturn' = [n |-> lastReturn.n + 1, op |-> op, arg |-> frame.arg,
                      outcome |-> outcome, value |-> value,
                      net |-> frame.net, at |-> now]

Return(frame, outcome, value) ==
    ReturnAs(frame, frame.op, outcome, value)

\* The four entitlement views run the same code up to the line that turns
\* the verdict into their return value, so a view call in flight is one
\* frame, "view", and which of the four it is shows where it returns.
ReturnView(frame, op, validation) ==
    ReturnAs(frame, op, "resolved", Derive(op, validation))

\* The catch block of a view (validateLicense rejected).
ReturnViewDefault(frame, op) ==
    ReturnAs(frame, op, "resolved", CatchDefault(op))

\* validateLicense resolved to `verdict` inside the public call of `frame`;
\* the caller runs on to its own return or to its next await.
ValidationSettles(frame, path, verdict, fetch, response) ==
    /\ lastValidation' = [n |-> lastValidation.n + 1, force |-> frame.force,
                          path |-> path, verdict |-> verdict,
                          fetch |-> fetch, response |-> response,
                          found |-> Kind(validationCache)]
    /\ IF frame.op = "activateLicense"
       THEN IF verdict.valid
            THEN Return(frame, "resolved",
                        [success |-> TRUE,
                         message |-> << "License activated successfully! Tier: ",
                                        ToUpperCase(verdict.tier) >>])
            ELSE /\ calls' = Suspend(frame, [frame EXCEPT !.pc = "activate delete",
                                                          !.verdict = verdict])
                 /\ UNCHANGED lastReturn
       ELSE IF frame.op = "view"
            THEN \E op \in ViewOps : ReturnView(frame, op, verdict)
            ELSE Return(frame, "resolved", verdict)

\* validateLicense resolved without having sent a request.
ValidationReturns(frame, path, verdict) ==
    ValidationSettles(frame, path, verdict, "none", NoLicenseResponse)

\* validateLicense rejected (secrets.get rejected at line 203).
ValidationThrows(frame) ==
    /\ lastValidation' = [n |-> lastValidation.n + 1, force |-> frame.force,
                          path |-> "threw", verdict |-> NoLicenseResponse,
                          fetch |-> "none", response |-> NoLicenseResponse,
                          found |-> Kind(validationCache)]
    /\ CASE frame.op = "view" ->
              \E op \in ViewOps : ReturnViewDefault(frame, op)
         [] frame.op = "activateLicense" ->
              Return(frame, "resolved",
                     [success |-> FALSE, message |-> << "Activation failed: ", "Error" >>])
         [] OTHER -> Return(frame, "rejected", Undefined)

\* validateLicense, lines 193-203: up to `await this.context.secrets.get`.
StartValidation(frame, cache) ==
    IF ~frame.force /\ CacheFresh(cache, now)
    THEN ValidationReturns(frame, "cache hit", cache[1].response)
    ELSE /\ calls' = Suspend(frame, [frame EXCEPT !.pc = "secrets.get"])
         /\ UNCHANGED << lastValidation, lastReturn >>

\* A response handler that skips the signature check.
OnResponseUnchecked(validationResponse, t) ==
    [path |-> "accepted", verdict |-> validationResponse]

\* A response handler that verifies the signature of every response,
\* whatever its valid field says.
OnResponseVerifiesAll(validationResponse, t) ==
    IF ~VerifyResponseSignature(validationResponse, t)
    THEN [path |-> "invalid signature", verdict |-> InvalidResponse]
    ELSE [path |-> "accepted", verdict |-> validationResponse]

\* validateLicense, lines 233-250: a 2xx response whose body parsed.
OnResponse(validationResponse, t) ==
    IF validationResponse.valid /\ ~VerifyResponseSignature(validationResponse, t)
    THEN [path |-> "invalid signature", verdict |-> InvalidResponse]
    ELSE [path |-> "accepted", verdict |-> validationResponse]

\* A catch block that always degrades to the community verdict.
OnFailureDropsCache(cache) ==
    [path |-> "community fallback", verdict |-> FallbackResponse]

\* validateLicense, lines 252-269: the catch block.
OnFailure(cache) ==
    IF cache # Undefined
    THEN [path |-> "cached fallback", verdict |-> cache[1].response]
    ELSE [path |-> "community fallback", verdict |-> FallbackResponse]

(* ------------------------------- actions ------------------------------- *)

\* The host may start another public call (bounded).
MayCall == started < MaxCalls /\ InFlight < MaxInFlight

\* hasProAccess / getLicenseTier / getFeatures / getLicenseInfo up to the
\* first await of validateLicense(false).
CallView ==
    /\ MayCall
    /\ started' = started + 1
    /\ StartValidation(NewFrame("view", Undefined, FALSE), validationCache)
    /\ UNCHANGED << secrets, validationCache, workspaceState, now, ticks, released >>

\* A refresh that forces validation without clearing the cache.
RefreshLicenseKeepingCache ==
    /\ MayCall
    /\ started' = started + 1
    /\ StartValidation(NewFrame("refreshLicense", Undefined, TRUE), validationCache)
    /\ UNCHANGED << secrets, validationCache, workspaceState, now, ticks, released >>

\* refreshLicense, lines 185-188
RefreshLicense ==
    /\ MayCall
    /\ started' = started + 1
    /\ ClearCache
    /\ StartValidation(NewFrame("refreshLicense", Undefined, TRUE), Undefined)
    /\ UNCHANGED << secrets, now, ticks, released >>

\* getLicenseKey, lines 48-50: up to `await secrets.get`.
GetLicenseKey ==
    /\ MayCall
    /\ started' = started + 1
    /\ calls' = calls (+) SetToBag({[NewFrame("getLicenseKey", Undefined, FALSE)
                                       EXCEPT !.pc = "key get"]})
    /\ UNCHANGED << secrets, validationCache, workspaceState, now, ticks,
                    lastValidation, lastReturn, released >>

\* getLicenseKey, line 49: secrets.get settles.
GetLicenseKeySettles(frame) ==
    /\ AtPc(frame, "key get")
    /\ \/ Return(frame, "rejected", Undefined)
       \/ Return(frame, "resolved", secrets)
    /\ UNCHANGED << secrets, validationCache, workspaceState, now, ticks,
                    started, lastValidation, released >>

\* An activation that clears the cache before it looks at the key.
ActivateLicenseClearingFirst(licenseKey) ==
    /\ MayCall
    /\ started' = started + 1
    /\ ClearCache
    /\ LET frame == NewFrame("activateLicense", Some(licenseKey), TRUE) IN
       IF ~WellFormed(licenseKey)
       THEN Return(frame, "resolved",
                   [success |-> FALSE, message |-> << "Invalid license key format" >>])
       ELSE /\ calls' = Suspend(frame, [frame EXCEPT !.pc = "secrets.store"])
            /\ UNCHANGED lastReturn
    /\ UNCHANGED << secrets, now, ticks, lastValidation, released >>

\* activateLicense, lines 93-101: the format check and `await secrets.store`.
ActivateLicense(licenseKey) ==
    /\ MayCall
    /\ started' = started + 1
    /\ LET frame == NewFrame("activateLicense", Some(licenseKey), TRUE) IN
       IF ~WellFormed(licenseKey)
       THEN Return(frame, "resolved",
                   [success |-> FALSE, message |-> << "Invalid license key format" >>])
       ELSE /\ calls' = Suspend(frame, [frame EXCEPT !.pc = "secrets.store"])
            /\ UNCHANGED lastReturn
    /\ UNCHANGED << secrets, validationCache, workspaceState, now, ticks,
                    lastValidation, released >>

\* An activation that goes on to validate without clearing the cache.
ActivateStoreSettlesKeepingCache(frame) ==
    /\ AtPc(frame, "secrets.store")
    /\ \/ /\ Return(frame, "resolved",
                    [success |-> FALSE, message |-> << "Activation failed: ", "Error" >>])
          /\ UNCHANGED << secrets, validationCache, workspaceState,
                          lastValidation, released >>
       \/ /\ secrets' = frame.arg
          /\ released' = FALSE
          /\ StartValidation(frame, Undefined)
          /\ UNCHANGED << validationCache, workspaceState >>
    /\ UNCHANGED << now, ticks, started >>

\* activateLicense, lines 101-105: secrets.store settles.
ActivateStoreSettles(frame) ==
    /\ AtPc(frame, "secrets.store")
    /\ \/ /\ Return(frame, "resolved",
                    [success |-> FALSE, message |-> << "Activation failed: ", "Error" >>])
          /\ UNCHANGED << secrets, validationCache, workspaceState,
                          lastValidation, released >>
       \/ /\ secrets' = frame.arg
          /\ ClearCache
          /\ released' = FALSE
          /\ StartValidation(frame, Undefined)
    /\ UNCHANGED << now, ticks, started >>

\* validateLicense, lines 203-223: secrets.get settles; without a key the
\* negative verdict is cached, with one the request is sent.
SecretsGetSettles(frame) ==
    /\ AtPc(frame, "secrets.get")
    /\ \/ /\ ValidationThrows(frame)
          /\ UNCHANGED << validationCache, workspaceState >>
       \/ IF NoKey(secrets)
          THEN /\ SaveCache(NoLicenseResponse)
               /\ ValidationReturns(frame, "no key", NoLicenseResponse)
          ELSE /\ calls' = Suspend(frame, [frame EXCEPT !.pc = "fetch",
                                                        !.key = secrets,
                                                        !.net = @ + 1])
               /\ UNCHANGED << validationCache, workspaceState,
                               lastValidation, lastReturn >>
    /\ UNCHANGED << secrets, now, ticks, started, released >>

\* A request handler whose catch block caches the verdict it falls back to.
FetchSettlesCachingFailure(frame) ==
    /\ AtPc(frame, "fetch")
    /\ \/ LET out == OnFailure(validationCache) IN
             /\ SaveCache(out.verdict)
             /\ ValidationSettles(frame, out.path, out.verdict, "failed",
                                  NoLicenseResponse)
       \/ \E validationResponse \in ServerResponses(now) :
             LET out == OnResponse(validationResponse, now) IN
             /\ SaveCache(out.verdict)
             /\ ValidationSettles(frame, out.path, out.verdict, "ok",
                                  validationResponse)
    /\ UNCHANGED << secrets, now, ticks, started, released >>

\* validateLicense, lines 214-269: the request settles.
FetchSettles(frame) ==
    /\ AtPc(frame, "fetch")
    /\ \/ /\ \E failure \in FetchFailures : TRUE
          /\ LET out == OnFailure(validationCache) IN
             ValidationSettles(frame, out.path, out.verdict, "failed",
                               NoLicenseResponse)
          /\ UNCHANGED << validationCache, workspaceState >>
       \/ \E validationResponse \in ServerResponses(now) :
             LET out == OnResponse(validationResponse, now) IN
             /\ SaveCache(out.verdict)
             /\ ValidationSettles(frame, out.path, out.verdict, "ok",
                                  validationResponse)
    /\ UNCHANGED << secrets, now, ticks, started, released >>

\* activateLicense, lines 112-119: secrets.delete of the rejected key settles.
ActivateDeleteSettles(frame) ==
    /\ AtPc(frame, "activate delete")
    /\ \/ /\ Return(frame, "resolved",
                    [success |-> FALSE, message |-> << "Activation failed: ", "Error" >>])
          /\ UNCHANGED secrets
       \/ /\ secrets' = Undefined
          /\ Return(frame, "resolved",
                    [success |-> FALSE,
                     message |-> << OrElse(frame.verdict.message,
                                           "License validation failed") >>])
    /\ UNCHANGED << validationCache, workspaceState, now, ticks, started,
                    lastValidation, released >>

\* deactivateLicense, lines 125-127: up to `await secrets.get`.
DeactivateLicense ==
    /\ MayCall
    /\ started' = started + 1
    /\ calls' = calls (+) SetToBag({[NewFrame("deactivateLicense", Undefined, FALSE)
                                       EXCEPT !.pc = "deactivate get"]})
    /\ UNCHANGED << secrets, validationCache, workspaceState, now, ticks,
                    lastValidation, lastReturn, released >>

\* deactivateLicense, lines 127-137: secrets.get settles; with a key the
\* seat release is sent.
DeactivateGetSettles(frame) ==
    /\ AtPc(frame, "deactivate get")
    /\ \/ calls' = Suspend(frame, [frame EXCEPT !.pc = "catch delete"])
       \/ IF NoKey(secrets)
          THEN calls' = Suspend(frame, [frame EXCEPT !.pc = "delete"])
          ELSE calls' = Suspend(frame, [frame EXCEPT !.pc = "release",
                                                     !.key = secrets,
                                                     !.net = @ + 1])
    /\ UNCHANGED << secrets, validationCache, workspaceState, now, ticks,
                    started, lastValidation, lastReturn, released >>

\* A deactivation that gives up when the seat release fails.
DeactivateReleaseSettlesOrGivesUp(frame) ==
    /\ AtPc(frame, "release")
    /\ \E remote \in { "ok", "non-2xx", "transport error" } :
          IF remote = "ok"
          THEN calls' = Suspend(frame, [frame EXCEPT !.pc = "delete"])
                 /\ UNCHANGED lastReturn
          ELSE Return(frame, "resolved", Undefined)
    /\ UNCHANGED << secrets, validationCache, workspaceState, now, ticks,
                    started, lastValidation, released >>

\* deactivateLicense, lines 133-147: the seat release settles; its outcome
\* is only logged.
DeactivateReleaseSettles(frame) ==
    /\ AtPc(frame, "release")
    /\ \E remote \in { "ok", "non-2xx", "transport error" } :
          calls' = Suspend(frame, [frame EXCEPT !.pc = "delete"])
    /\ UNCHANGED << secrets, validationCache, workspaceState, now, ticks,
                    started, lastValidation, lastReturn, released >>

\* A deactivation that removes the key and forgets to clear the cache.
DeactivateLocallyKeepCache(frame) ==
    /\ secrets' = Undefined
    /\ UNCHANGED << validationCache, workspaceState >>
    /\ released' = TRUE
    /\ Return(frame, "resolved", Undefined)

\* deactivateLicense, lines 147-148 and 151-152: secrets.delete resolved.
DeactivateLocally(frame) ==
    /\ secrets' = Undefined
    /\ ClearCache
    /\ released' = TRUE
    /\ Return(frame, "resolved", Undefined)

\* deactivateLicense, lines 147-151: secrets.delete in the try block settles.
DeactivateDeleteSettles(frame) ==
    /\ AtPc(frame, "delete")
    /\ \/ /\ calls' = Suspend(frame, [frame EXCEPT !.pc = "catch delete"])
          /\ UNCHANGED << secrets, validationCache, workspaceState,
                          lastReturn, released >>
       \/ DeactivateLocally(frame)
    /\ UNCHANGED << now, ticks, started, lastValidation >>

\* deactivateLicense, lines 149-153: secrets.delete in the catch block settles.
DeactivateCatchDeleteSettles(frame) ==
    /\ AtPc(frame, "catch delete")
    /\ \/ /\ Return(frame, "rejected", Undefined)
          /\ UNCHANGED << secrets, validationCache, workspaceState, released >>
       \/ DeactivateLocally(frame)
    /\ UNCHANGED << now, ticks, started, lastValidation >>

\* The instants at which the clock is read lie one millisecond before and
\* at each multiple of the cache duration.
TickDelta(n) == IF n % 2 = 0 THEN CACHE_DURATION - 1 ELSE 1

\* Time passes.
Tick ==
    /\ ticks < MaxTicks
    /\ ticks' = ticks + 1
    /\ now' = now + TickDelta(ticks)
    /\ UNCHANGED << secrets, validationCache, workspaceState, calls, started,
                    lastValidation, lastReturn, released >>

Frames == BagToSet(calls)

\* The host starts a public call.
HostCalls ==
    \/ CallView
    \/ RefreshLicense
    \/ \E licenseKey \in TypedKeys : ActivateLicense(licenseKey)
    \/ DeactivateLicense
    \/ GetLicenseKey

\* A suspended call resumes.
Resumes ==
    \/ \E frame \in Frames : GetLicenseKeySettles(frame)
    \/ \E frame \in Frames : ActivateStoreSettles(frame)
    \/ \E frame \in Frames : SecretsGetSettles(frame)
    \/ \E frame \in Frames : FetchSettles(frame)
    \/ \E frame \in Frames : ActivateDeleteSettles(frame)
    \/ \E frame \in Frames : DeactivateGetSettles(frame)
    \/ \E frame \in Frames : DeactivateReleaseSettles(frame)
    \/ \E frame \in Frames : DeactivateDeleteSettles(frame)
    \/ \E frame \in Frames : DeactivateCatchDeleteSettles(frame)

Next == HostCalls \/ Resumes \/ Tick

\* The host may overlap its calls (command handlers run whenever the user
\* invokes them).
Spec == Init /\ [][Next]_vars

\* The host serializes its calls: each completes before the next starts.
NextSerial == (InFlight = 0 /\ HostCalls) \/ Resumes \/ Tick

SpecSerial == Init /\ [][NextSerial]_vars

(* --------------------------- the network is down ---------------------- *)

\* A suspended call resumes while every request fails and the secret store
\* works: each await of the secret store resolves, each fetch fails.
OfflineResumes ==
    \/ \E frame \in Frames :
          GetLicenseKeySettles(frame) /\ lastReturn'.outcome = "resolved"
    \/ \E frame \in Frames :
          ActivateStoreSettles(frame) /\ lastReturn' = lastReturn
    \/ \E frame \in Frames :
          SecretsGetSettles(frame) /\ lastValidation'.path # "threw"
    \/ \E frame \in Frames :
          FetchSettles(frame) /\ lastValidation'.fetch = "failed"
    \/ \E frame \in Frames :
          /\ ActivateDeleteSettles(frame)
          /\ lastReturn'.value.message # << "Activation failed: ", "Error" >>
    \/ \E frame \in Frames :
          /\ DeactivateGetSettles(frame)
          /\ \A next \in BagToSet(calls') : next.pc # "catch delete"
    \/ \E frame \in Frames : DeactivateReleaseSettles(frame)
    \/ \E frame \in Frames :
          DeactivateDeleteSettles(frame) /\ lastReturn' # lastReturn

NextOffline == HostCalls \/ OfflineResumes \/ Tick

\* Total network failure.  A promise that can settle does settle: the
\* secret store answers and, by the hypothesis, every request eventually
\* fails, and the event loop then runs the continuation.
SpecOffline == Init /\ [][NextOffline]_vars /\ WF_vars(OfflineResumes)

\* The network is down, the secret store works, and the host serializes
\* its calls.
NextOfflineSerial == (InFlight = 0 /\ HostCalls) \/ OfflineResumes \/ Tick

SpecOfflineSerial ==
    Init /\ [][NextOfflineSerial]_vars /\ WF_vars(OfflineResumes)

(* ------------------- verifyResponseSignature on its own ---------------- *)

\* Bodies a 2xx answer may carry whose timestamp lies at, on the edges of,
\* and just outside the freshness window around t, or is missing.
SignedBodies(t) ==
    { Signed(Response(valid, Some("pro"), Some({"x"}), Undefined, ts), Issuer) :
        valid \in BOOLEAN,
        ts \in { 0, t, t - FRESHNESS_WINDOW, t + FRESHNESS_WINDOW,
                 t - FRESHNESS_WINDOW - 1, t + FRESHNESS_WINDOW + 1 } }

\* What somebody between the issuer and the client can make of the signed
\* response r by changing one field of it.
Tamperings(r) ==
    { [r EXCEPT !.valid = ~@],
      [r EXCEPT !.tier = Some("team")],
      [r EXCEPT !.tier = Undefined],
      [r EXCEPT !.features = Some({"x", "y"})],
      [r EXCEPT !.expiresAt = Some("2099-01-01T00:00:00Z")],
      [r EXCEPT !.timestamp = @ + 1],
      [r EXCEPT !.message = Some("Welcome back")],
      [r EXCEPT !.signature = Undefined],
      [r EXCEPT !.signature = Sign("attacker", Payload(r))],
      [r EXCEPT !.signature = Sign(Issuer, Payload([r EXCEPT !.tier = Some("team")]))],
      [r EXCEPT !.signature = Respell(@)] }

\* The responses verifyResponseSignature is handed at time t.
VerifyInputs(t) ==
    SignedBodies(t) \cup UNION { Tamperings(r) : r \in SignedBodies(t) }

\* verifyResponseSignature(response), lines 315-354, called on its own.
VerifyCall(response) ==
    /\ started < MaxCalls
    /\ started' = started + 1
    /\ lastReturn' = [n |-> lastReturn.n + 1, op |-> "verifyResponseSignature",
                      arg |-> Some(response), outcome |-> "resolved",
                      value |-> VerifyResponseSignature(response, now),
                      net |-> 0, at |-> now]
    /\ UNCHANGED << secrets, validationCache, workspaceState, now, ticks, calls,
                    lastValidation, released >>

NextVerify ==
    \/ \E response \in VerifyInputs(now) : VerifyCall(response)
    \/ Tick

\* verifyResponseSignature applied to one response after another.
SpecVerify == Init /\ [][NextVerify]_vars

(* ------------------------------ properties ----------------------------- *)

\* The cache holds a positive verdict.
CachedPositive ==
    validationCache # Undefined /\ validationCache[1].response.valid

\* The negative verdict of the data model: community tier, no features.
IsDenial(verdict) ==
    /\ ~verdict.valid
    /\ verdict.tier = Some("community")
    /\ verdict.features = Some({})

\* A validateLicense call settles in this step.
ValidationEnds == lastValidation'.n # lastValidation.n

\* Public calls that have settled so far.
Returned == started - InFlight

\* A public call settles in this step.
CallReturns == started' - BagCardinality(calls') > Returned

\* The response carries a signature of the issuer over its own signed
\* fields and a timestamp within the freshness window around t.
Authentic(response, t) ==
    /\ response.signature # Undefined
    /\ BufferFrom(response.signature)
          = [signer |-> Issuer, payload |-> Payload(response)]
    /\ response.timestamp # 0
    /\ response.timestamp - t <= FRESHNESS_WINDOW
    /\ t - response.timestamp <= FRESHNESS_WINDOW

\* C1. Authenticated denial overrides cache: when the cache holds a positive
\* verdict and a validation receives a 2xx response that says valid=true
\* but is not authentic, the validation returns the negative verdict
\* (valid=false, community, no features), caches it, and does not return
\* the positive verdict that was cached.
C1_DenialOverridesCache ==
    [][ ( /\ ValidationEnds
          /\ lastValidation'.fetch = "ok"
          /\ lastValidation'.response.valid
          /\ ~Authentic(lastValidation'.response, now)
          /\ CachedPositive )
        => ( /\ IsDenial(lastValidation'.verdict)
             /\ lastValidation'.verdict # validationCache[1].response
             /\ validationCache' # Undefined
             /\ validationCache'[1].response = lastValidation'.verdict ) ]_vars

\* C1 witness: a valid=true response signed by someone else arrived while
\* the cache held a positive verdict, and the denial is what is cached now.
C1_Witness ==
    /\ lastValidation.fetch = "ok"
    /\ lastValidation.response.valid
    /\ lastValidation.response.signature[1].signer # Issuer
    /\ lastValidation.found = "positive"
    /\ lastValidation.path = "invalid signature"
    /\ validationCache = Some(CachedValidation(InvalidResponse, now))

\* C2. Offline fallback: when a cache entry exists (fresh or stale) and the
\* network call of a validation fails, the validation returns exactly the
\* cached verdict and the cache entry, cachedAt included, is unchanged.
C2_OfflineFallback ==
    [][ ( /\ ValidationEnds
          /\ lastValidation'.fetch = "failed"
          /\ validationCache # Undefined )
        => ( /\ lastValidation'.verdict = validationCache[1].response
             /\ validationCache' = validationCache
             /\ workspaceState' = workspaceState ) ]_vars

\* C2 witness: a failed request was answered with the stale positive
\* verdict that is still cached with its old cachedAt.
C2_Witness ==
    /\ lastValidation.fetch = "failed"
    /\ validationCache # Undefined
    /\ lastValidation.verdict = validationCache[1].response
    /\ lastValidation.verdict.valid
    /\ now - validationCache[1].timestamp >= CACHE_DURATION

\* Two consecutive view calls of a serializing host, the second returning
\* less than the TTL after the first returned.
TwoViewsWithinTtl ==
    /\ CallReturns
    /\ lastReturn.op \in ViewOps
    /\ lastReturn'.op \in ViewOps
    /\ now - lastReturn.at < CACHE_DURATION

\* C3 as claimed. Idempotence: two calls of validate(false) within the TTL
\* with no activate/deactivate between them perform exactly one network
\* call in total, whatever the outcome of the first call.
C3_ExactlyOneCall ==
    [][ TwoViewsWithinTtl => lastReturn.net + lastReturn'.net = 1 ]_vars

\* C3 as amended. Two calls of validate(false) within the TTL with nothing
\* between them, the first of which sent a request that was answered with
\* a parsed 2xx response, perform exactly one network call in total: the
\* second is served from the cache.
C3_OneCallWhenAnswered ==
    [][ ( /\ TwoViewsWithinTtl
          /\ lastValidation.fetch = "ok" )
        => ( /\ lastReturn.net + lastReturn'.net = 1
             /\ lastValidation'.path = "cache hit" ) ]_vars

\* C3 witness: the second of two view calls has returned from the cache an
\* entry that a request of this session wrote.
C3_Witness ==
    /\ Returned = 2
    /\ InFlight = 0
    /\ lastReturn.op \in ViewOps
    /\ lastReturn.net = 0
    /\ lastValidation.path = "cache hit"
    /\ validationCache # Undefined
    /\ validationCache[1].timestamp > StartTime
    /\ validationCache[1].response.timestamp # 0

\* deactivateLicense has resolved, it is the latest call to have settled,
\* and no call is in flight.
DeactivationDone ==
    /\ lastReturn.op = "deactivateLicense"
    /\ lastReturn.outcome = "resolved"
    /\ InFlight = 0

\* C4. Deactivation clears state: once deactivateLicense has completed with
\* no other call in flight, the cache (in memory and persisted) is empty
\* and no key is stored, so the fresh-cache path of the next validate(false)
\* cannot return a cached pro verdict.
C4_DeactivationClears ==
    DeactivationDone =>
        /\ validationCache = Undefined
        /\ workspaceState = Undefined
        /\ secrets = Undefined
        /\ ~CacheFresh(validationCache, now)

\* C4 witness: deactivateLicense completed less than the TTL after a
\* positive response had been accepted and cached.
C4_Witness ==
    /\ DeactivationDone
    /\ lastReturn.net = 1
    /\ lastValidation.path = "accepted"
    /\ lastValidation.verdict.valid
    /\ now - lastValidation.verdict.timestamp < CACHE_DURATION

\* C5. Once deactivateLicense has returned (and no key was stored since),
\* the cache never holds a positive verdict, whatever validation was in
\* flight when it returned: a late positive response is not written into
\* the cache that the deactivation cleared.
C5_NoLateWrite ==
    released => ~CachedPositive

\* Validation requests outstanding against the issuer.
Outstanding == { frame \in Frames : frame.pc = "fetch" }

\* C6. At most one remote validation is in flight at any time.
C6_AtMostOneInFlight ==
    /\ Cardinality(Outstanding) <= 1
    /\ \A frame \in Outstanding : CopiesIn(frame, calls) = 1

\* C7. Cache-write ordering: a cached negative verdict of the issuer is
\* never overwritten by a positive verdict whose response timestamp is
\* older and which arrives later.
C7_NewestResponseWins ==
    [][ ( /\ ValidationEnds
          /\ lastValidation'.fetch = "ok"
          /\ lastValidation'.response.valid
          /\ validationCache # Undefined
          /\ ~validationCache[1].response.valid
          /\ validationCache[1].response.timestamp
                > lastValidation'.response.timestamp )
        => ~validationCache'[1].response.valid ]_vars

\* The key does not begin with the product prefix.
LacksPrefix(licenseKey) ==
    \/ Len(licenseKey) < Len(LICENSE_PREFIX)
    \/ SubSeq(licenseKey, 1, Len(LICENSE_PREFIX)) # LICENSE_PREFIX

\* C8. For every key that does not start with the product prefix,
\* activateLicense returns success=false with the format error and has
\* performed no network call.
C8_MalformedKeyFailsLocally ==
    [][ ( /\ CallReturns
          /\ lastReturn'.op = "activateLicense"
          /\ LacksPrefix(lastReturn'.arg[1]) )
        => ( /\ lastReturn'.value =
                  [success |-> FALSE,
                   message |-> << "Invalid license key format" >>]
             /\ lastReturn'.net = 0
             /\ lastReturn'.outcome = "resolved"
             /\ lastValidation' = lastValidation ) ]_vars

\* C8 witness: a key that contains the prefix, but not at its start, was
\* rejected.
C8_Witness ==
    /\ lastReturn.op = "activateLicense"
    /\ lastReturn.arg = Some(<< "X" >> \o GoodKey)
    /\ ~lastReturn.value.success
    /\ lastReturn.net = 0

\* The public entry points the host gates features on.
EntryPoints ==
    ViewOps \cup { "activateLicense", "deactivateLicense", "refreshLicense" }

\* C9. No exception escapes a public entry point: each of them resolves,
\* whatever the network and the secret store do.
C9_NoExceptionEscapes ==
    lastReturn.op \in EntryPoints => lastReturn.outcome = "resolved"

\* C10. Verdict invariant: every verdict that validation returned or that
\* the cache holds with valid=false has tier community and no features.
C10_DenialIsCommunity ==
    /\ (validationCache # Undefined /\ ~validationCache[1].response.valid)
          => IsDenial(validationCache[1].response)
    /\ (lastValidation.path \notin { "none", "threw" } /\ ~lastValidation.verdict.valid)
          => IsDenial(lastValidation.verdict)

\* The entry was written from a response that carries the issuer's
\* signature over its own signed fields and whose timestamp lay within the
\* freshness window when the entry was written.
FromVerifiedResponse(cache) ==
    Authentic(cache[1].response, cache[1].timestamp)

\* C11. Cache trust invariant: in every reachable state a cache entry with
\* valid=true, in memory or persisted, was written from a server response
\* that passed signature verification; a response that failed verification
\* is never stored with valid=true.
C11_CacheTrust ==
    /\ (validationCache # Undefined /\ validationCache[1].response.valid)
          => FromVerifiedResponse(validationCache)
    /\ (workspaceState # Undefined /\ workspaceState[1].response.valid)
          => FromVerifiedResponse(workspaceState)
    /\ (lastValidation.fetch = "ok" /\ lastValidation.verdict.valid)
          => lastValidation.response.signature
                = Sign(Issuer, Payload(lastValidation.response))

\* C11 witness: a response of this session was accepted and is what the
\* cache holds with valid=true.
C11_Witness ==
    /\ lastValidation.fetch = "ok"
    /\ lastValidation.path = "accepted"
    /\ CachedPositive
    /\ validationCache = Some(CachedValidation(lastValidation.response, now))
    /\ workspaceState = validationCache

\* The host calls one of the four entitlement views in this step.
ViewStarts ==
    /\ started' = started + 1
    /\ IF calls' = calls
       THEN lastReturn'.n # lastReturn.n /\ lastReturn'.op \in ViewOps
       ELSE \E frame \in BagToSet(calls') :
               /\ frame.op = "view"
               /\ CopiesIn(frame, calls') > CopiesIn(frame, calls)

\* The cache holds `verdict`, written less than the TTL ago.
CachedWithinTtl(verdict) ==
    /\ validationCache # Undefined
    /\ validationCache[1].response = verdict
    /\ now - validationCache[1].timestamp < CACHE_DURATION

\* The view call that starts in this step returns in it, from the cache,
\* without a network call, and leaves the cache as it is.
ServedFromCache ==
    /\ CallReturns
    /\ ValidationEnds
    /\ lastValidation'.path = "cache hit"
    /\ lastValidation'.verdict = validationCache[1].response
    /\ lastReturn'.net = 0
    /\ lastReturn'.outcome = "resolved"
    /\ validationCache' = validationCache
    /\ workspaceState' = workspaceState

\* C12. A signature-verification failure is cached as an explicit negative
\* verdict carrying the invalid-server-response message: hasProAccess
\* returns false, and while that entry is cached every further
\* validate(false) call made within the TTL returns that cached verdict
\* without a network call.
C12_VerificationFailureCached ==
    [][ /\ ( /\ ValidationEnds
             /\ lastValidation'.fetch = "ok"
             /\ lastValidation'.response.valid
             /\ ~Authentic(lastValidation'.response, now) )
           => ( /\ lastValidation'.verdict = InvalidResponse
                /\ validationCache' = Some(CachedValidation(InvalidResponse, now))
                /\ workspaceState' = validationCache'
                /\ (CallReturns /\ lastReturn'.op = "hasProAccess")
                      => lastReturn'.value = FALSE )
        /\ ( ViewStarts /\ CachedWithinTtl(InvalidResponse) )
           => ( /\ ServedFromCache
                /\ lastValidation'.verdict = InvalidResponse
                /\ lastReturn'.op = "hasProAccess" => lastReturn'.value = FALSE )
      ]_vars

\* C12 witness: after a verification failure a second call, hasProAccess,
\* has been answered false from the cached negative verdict.
C12_Witness ==
    /\ Returned = 2
    /\ lastReturn.op = "hasProAccess"
    /\ lastReturn.value = FALSE
    /\ lastReturn.net = 0
    /\ lastValidation.path = "cache hit"
    /\ lastValidation.verdict = InvalidResponse
    /\ validationCache # Undefined
    /\ validationCache[1].response = InvalidResponse

\* C13. Whenever no license key is stored, getLicenseTier returns
\* "community" and performs no network call, in every reachable state: a
\* getLicenseTier call that is made while no key is stored and returns at
\* once, or that looks the key up and finds none, returns "community"
\* without having sent a request.
C13_NoKeyIsCommunity ==
    [][ ( /\ CallReturns
          /\ lastReturn'.op = "getLicenseTier"
          /\ NoKey(secrets)
          /\ lastValidation'.fetch = "none" )
        => ( /\ lastReturn'.value = "community"
             /\ lastReturn'.net = 0 ) ]_vars

\* The cache holds the positive pro verdict of an authentic response,
\* written less than the TTL ago, and a key is stored.
ProCachedWithinTtl ==
    /\ ~NoKey(secrets)
    /\ validationCache # Undefined
    /\ validationCache[1].response.valid
    /\ validationCache[1].response.tier = Some("pro")
    /\ FromVerifiedResponse(validationCache)
    /\ now - validationCache[1].timestamp < CACHE_DURATION

\* C14. After a stored key was validated by a correctly signed, fresh
\* response with valid=true and tier pro, hasProAccess returns true, and
\* every view call made less than 24 hours after the cache write, while
\* that entry is the cached one (no activate, deactivate or refresh has
\* cleared it), is answered from the cache without a network call:
\* hasProAccess returns true, getLicenseTier "pro".
C14_ProServedFromCache ==
    [][ /\ ( /\ ValidationEnds
             /\ CallReturns
             /\ lastValidation'.fetch = "ok"
             /\ lastValidation'.response.valid
             /\ lastValidation'.response.tier = Some("pro")
             /\ Authentic(lastValidation'.response, now)
             /\ lastReturn'.op = "hasProAccess" )
           => ( /\ lastReturn'.value = TRUE
                /\ validationCache'
                     = Some(CachedValidation(lastValidation'.response, now)) )
        /\ ( ViewStarts /\ ProCachedWithinTtl )
           => ( /\ ServedFromCache
                /\ lastReturn'.op = "hasProAccess" => lastReturn'.value = TRUE
                /\ lastReturn'.op = "getLicenseTier" => lastReturn'.value = "pro" )
      ]_vars

\* C14 witness: one millisecond before the entry written in this session
\* turns 24 hours old, a second call, hasProAccess, has been answered true
\* from it.
C14_Witness ==
    /\ Returned = 2
    /\ lastReturn.op = "hasProAccess"
    /\ lastReturn.value = TRUE
    /\ lastReturn.net = 0
    /\ lastValidation.path = "cache hit"
    /\ ProCachedWithinTtl
    /\ validationCache[1].response.timestamp # StartTime
    /\ now - validationCache[1].timestamp = CACHE_DURATION - 1

\* C15. Freshness window: for every response with |now - timestamp| > 5
\* minutes, timestamp in the past or in the future, verifyResponseSignature
\* returns false whether or not the signature is the issuer's; a response
\* exactly 5 minutes off is still within the window, so it is accepted
\* when the issuer signed it.
C15_FreshnessWindow ==
    lastReturn.op = "verifyResponseSignature" =>
        LET response == lastReturn.arg[1]
            ahead == response.timestamp - lastReturn.at
        IN  /\ (ahead > FRESHNESS_WINDOW \/ ahead < -FRESHNESS_WINDOW)
                  => lastReturn.value = FALSE
            /\ ( /\ ahead \in { FRESHNESS_WINDOW, -FRESHNESS_WINDOW }
                 /\ response.signature = Sign(Issuer, Payload(response)) )
                  => lastReturn.value = TRUE

\* C15 witness: a response the issuer signed, stamped one millisecond more
\* than 5 minutes into the future, was rejected.
C15_Witness ==
    /\ lastReturn.op = "verifyResponseSignature"
    /\ lastReturn.arg[1].signature = Sign(Issuer, Payload(lastReturn.arg[1]))
    /\ lastReturn.arg[1].timestamp - lastReturn.at = FRESHNESS_WINDOW + 1
    /\ lastReturn.value = FALSE

\* Response q is response r with a signed field changed and the signature
\* left alone, or with the signature changed and the signed fields left
\* alone.
Tampered(r, q) ==
    \/ q.signature = r.signature /\ Payload(q) # Payload(r)
    \/ q.signature # r.signature /\ Payload(q) = Payload(r)

\* C16. verifyResponseSignature returns true exactly when the response
\* carries a signature and a timestamp, the timestamp is within the
\* freshness window, and the signature matches the canonical payload
\* {valid, tier, features, expiresAt, timestamp}; changing any signed field
\* or the signature of an accepted response makes it return false.
C16_AcceptsExactlyAuthentic ==
    [][ ( /\ lastReturn'.n # lastReturn.n
          /\ lastReturn'.op = "verifyResponseSignature" )
        => ( /\ lastReturn'.value
                  = Authentic(lastReturn'.arg[1], lastReturn'.at)
             /\ ( /\ lastReturn.op = "verifyResponseSignature"
                  /\ lastReturn.value = TRUE
                  /\ lastReturn.at = lastReturn'.at
                  /\ Tampered(lastReturn.arg[1], lastReturn'.arg[1]) )
                => lastReturn'.value = FALSE ) ]_vars

\* C17. activateLicense(key) with a well-formed key, called by a host that
\* serializes its calls: if the forced validation yields valid=true it
\* reports success with the resolved tier and the key stays stored; if it
\* yields valid=false the stored key is removed again and the verdict's
\* message is reported; whenever it returns success=false after having
\* stored the submitted key, that key is not stored afterwards.
C17_FailedActivationLeavesNoKey ==
    [][ ( /\ CallReturns
          /\ lastReturn'.op = "activateLicense"
          /\ WellFormed(lastReturn'.arg[1]) )
        => ( /\ lastReturn'.value.success
                  => ( /\ lastValidation'.verdict.valid
                       /\ secrets' = lastReturn'.arg
                       /\ lastReturn'.value.message
                            = << "License activated successfully! Tier: ",
                                 ToUpperCase(lastValidation'.verdict.tier) >> )
             /\ \A frame \in Frames :
                  frame.pc = "activate delete"
                  => ( /\ secrets' = Undefined
                       /\ lastReturn'.value
                            = [success |-> FALSE,
                               message |-> << OrElse(frame.verdict.message,
                                                     "License validation failed") >>] )
             /\ ( /\ ~lastReturn'.value.success
                  /\ \E frame \in Frames : frame.pc # "secrets.store" )
                  => secrets' # lastReturn'.arg ) ]_vars

\* The call of `frame` runs on in this step.
Resumed(frame) == CopiesIn(frame, calls') < CopiesIn(frame, calls)

\* C18. deactivateLicense always succeeds locally: whether the remote
\* seat-release call succeeds, returns non-2xx, or throws a transport
\* error, the call goes on to remove the stored key, and when it resolves
\* the stored key is removed and the cache, in memory and persisted, is
\* cleared.
C18_DeactivationSucceedsLocally ==
    [][ /\ \A frame \in Frames :
             (frame.pc = "release" /\ Resumed(frame))
             => ( /\ calls' = Suspend(frame, [frame EXCEPT !.pc = "delete"])
                  /\ lastReturn' = lastReturn )
        /\ ( /\ CallReturns
             /\ lastReturn'.op = "deactivateLicense"
             /\ lastReturn'.outcome = "resolved" )
           => ( /\ secrets' = Undefined
                /\ validationCache' = Undefined
                /\ workspaceState' = Undefined ) ]_vars

\* C18 witness: a deactivation that sent the seat release has resolved; the
\* key that was stored is removed and so is the cache entry that the last
\* validation had written.
C18_Witness ==
    /\ lastReturn.op = "deactivateLicense"
    /\ lastReturn.outcome = "resolved"
    /\ lastReturn.net = 1
    /\ lastValidation.fetch = "ok"
    /\ secrets = Undefined
    /\ validationCache = Undefined
    /\ workspaceState = Undefined

\* C19. deactivateLicense clears the cache unconditionally: the cache, in
\* memory and persisted, is empty when the call returns, even when reading
\* or removing the stored key raised an error.
C19_DeactivationClearsCache ==
    [][ ( /\ CallReturns
          /\ lastReturn'.op = "deactivateLicense" )
        => ( /\ validationCache' = Undefined
             /\ workspaceState' = Undefined ) ]_vars

\* What a view that returns in this step owes its caller when the network
\* is down: the cached verdict if one exists, otherwise the community-tier
\* defaults; a view that sent no request returns the cached verdict or the
\* community-tier defaults.
UsableResult ==
    LET op == lastReturn'.op
        cached == validationCache
    IN  IF lastValidation'.fetch = "failed"
        THEN lastReturn'.value
               = IF cached # Undefined THEN Derive(op, cached[1].response)
                                       ELSE CatchDefault(op)
        ELSE \/ lastReturn'.value = CatchDefault(op)
             \/ cached # Undefined /\ lastReturn'.value = Derive(op, cached[1].response)

\* C20. Under total network failure every call of getLicenseKey,
\* hasProAccess, getLicenseTier, getFeatures, activateLicense,
\* deactivateLicense, refreshLicense and getLicenseInfo eventually
\* resolves, and the entitlement views resolve to a usable result: the
\* cached verdict if one exists, otherwise the community-tier defaults.
C20_OfflineCallsResolve ==
    /\ \A k \in 1..MaxCalls : (started >= k) ~> (Returned >= k)
    /\ [](lastReturn.outcome \in { "none", "resolved" })
    /\ [][ ( /\ CallReturns
             /\ lastReturn'.op \in ViewOps )
           => UsableResult ]_vars

\* C20 witness: with the network down every call has returned, the last
\* of them getLicenseTier, whose request failed and which answered "pro"
\* from the stale cache entry.
C20_Witness ==
    /\ started = MaxCalls
    /\ InFlight = 0
    /\ lastReturn.op = "getLicenseTier"
    /\ lastReturn.value = "pro"
    /\ lastReturn.net = 1
    /\ lastValidation.path = "cached fallback"
    /\ now - validationCache[1].timestamp >= CACHE_DURATION

\* A key is stored.
KeyStored == secrets # Undefined /\ secrets[1] # << >>

\* The validation of `frame` reads the stored key in this step (and the
\* secret store answers).
ReadsKey(frame) ==
    /\ frame.pc = "secrets.get"
    /\ Resumed(frame)
    /\ ~(ValidationEnds /\ lastValidation'.path = "threw")

\* C21 as claimed. A forced validation never returns through the
\* fresh-cache path and always attempts the network call.
C21_ForcedAlwaysFetches ==
    [][ ( /\ ValidationEnds
          /\ lastValidation'.force
          /\ lastValidation'.path # "threw" )
        => ( /\ lastValidation'.path # "cache hit"
             /\ lastValidation'.fetch # "none" ) ]_vars

\* C21 as amended. A forced validation never returns through the
\* fresh-cache path; it reads the stored key, attempts the network call
\* when a key is stored, and returns without a network call when none is.
C21_ForcedBypassesCache ==
    [][ /\ ( ValidationEnds /\ lastValidation'.force )
           => lastValidation'.path # "cache hit"
        /\ \A frame \in Frames :
             ( frame.force /\ ReadsKey(frame) )
             => IF KeyStored
                THEN calls' = Suspend(frame, [frame EXCEPT !.pc = "fetch",
                                                           !.key = secrets,
                                                           !.net = @ + 1])
                ELSE /\ ValidationEnds
                     /\ lastValidation'.force
                     /\ lastValidation'.fetch = "none" ]_vars

\* C21 witness: refreshLicense, with a key stored, has returned after a
\* request that it sent.
C21_Witness ==
    /\ lastReturn.op = "refreshLicense"
    /\ lastReturn.net = 1
    /\ lastValidation.force
    /\ lastValidation.fetch # "none"
    /\ KeyStored

\* activateLicense, deactivateLicense or refreshLicense runs in this step.
ClearingCallRuns ==
    \/ \E frame \in Frames :
          /\ frame.op \in { "activateLicense", "deactivateLicense" }
          /\ Resumed(frame)
    \/ \E frame \in BagToSet(calls') :
          /\ frame.op = "refreshLicense"
          /\ CopiesIn(frame, calls') > CopiesIn(frame, calls)
    \/ CallReturns /\ lastReturn'.op = "refreshLicense"

\* C22. Offline tolerance over time: once a key has been validated
\* positively and cached, then while every request fails the entry stays
\* as it is until activate, deactivate or refresh clears it, and every
\* view call, at any cache age, returns the last validated verdict (its
\* tier, its features); with no cache entry a failed request is answered
\* with the community verdict.
C22_OfflineKeepsTier ==
    [][ /\ ( /\ CachedPositive
             /\ KeyStored
             /\ validationCache' # validationCache )
           => ( validationCache' = Undefined /\ ClearingCallRuns )
        /\ ( /\ CachedPositive
             /\ KeyStored
             /\ CallReturns
             /\ lastReturn'.op \in ViewOps )
           => lastReturn'.value
                = Derive(lastReturn'.op, validationCache[1].response)
        /\ ( /\ ValidationEnds
             /\ lastValidation'.fetch = "failed"
             /\ validationCache = Undefined )
           => ( /\ ~lastValidation'.verdict.valid
                /\ lastValidation'.verdict.tier = Some("community")
                /\ (CallReturns /\ lastReturn'.op = "getLicenseTier")
                      => lastReturn'.value = "community" ) ]_vars

\* C22 witness: the second of two view calls whose requests failed has
\* answered "pro" from the entry of an earlier session, 24 hours old or
\* older.
C22_Witness ==
    /\ lastValidation.n = 2
    /\ Returned = 2
    /\ lastReturn.op = "getLicenseTier"
    /\ lastReturn.value = "pro"
    /\ lastReturn.net = 1
    /\ lastValidation.path = "cached fallback"
    /\ KeyStored
    /\ now - validationCache[1].timestamp >= CACHE_DURATION

\* The view call that starts in this step goes on to read the stored key:
\* it is suspended at secrets.get and nothing else has happened.
GoesOnToReadKey ==
    /\ calls' = calls (+) SetToBag({[NewFrame("view", Undefined, FALSE)
                                       EXCEPT !.pc = "secrets.get"]})
    /\ lastValidation' = lastValidation
    /\ lastReturn' = lastReturn
    /\ validationCache' = validationCache
    /\ workspaceState' = workspaceState

\* C23. Fresh cache hit: when validate is not forced and a cache entry
\* exists with now - cachedAt < 24h, the cached verdict is returned with no
\* I/O (the call returns before its first await: no secret-store read, no
\* network call, no cache write); at now - cachedAt = 24h exactly, and
\* later, the entry is stale and is not returned through this path.
C23_FreshCacheHit ==
    [][ ( ViewStarts /\ validationCache # Undefined )
        => IF now - validationCache[1].timestamp < CACHE_DURATION
           THEN /\ ServedFromCache
                /\ calls' = calls
                /\ secrets' = secrets
                /\ lastReturn'.value
                     = Derive(lastReturn'.op, validationCache[1].response)
           ELSE GoesOnToReadKey ]_vars

\* C23 witness: a view call was answered from the cache one millisecond
\* before the entry turned 24 hours old, and the next one, made at 24
\* hours exactly, is waiting for the secret store.
C23_Witness ==
    /\ validationCache # Undefined
    /\ now - validationCache[1].timestamp = CACHE_DURATION
    /\ lastValidation.path = "cache hit"
    /\ lastReturn.at - validationCache[1].timestamp = CACHE_DURATION - 1
    /\ \E frame \in Frames : frame.op = "view" /\ frame.pc = "secrets.get"

\* C24. No stored key: when a validation has passed the cache check and
\* the secret store answers that no key is stored, it returns the negative
\* community verdict with empty features, writes that verdict to the
\* cache, in memory and persisted, with cachedAt = now, and makes no
\* network call.
C24_NoStoredKey ==
    [][ \A frame \in Frames :
          ( ReadsKey(frame) /\ ~KeyStored )
          => ( /\ ValidationEnds
               /\ lastValidation'.verdict = NoLicenseResponse
               /\ IsDenial(lastValidation'.verdict)
               /\ lastValidation'.fetch = "none"
               /\ frame.net = 0
               /\ CallReturns => lastReturn'.net = 0
               /\ validationCache' = Some(CachedValidation(NoLicenseResponse, now))
               /\ workspaceState' = validationCache'
               /\ \A next \in BagToSet(calls') : next.pc = "fetch" => BagIn(next, calls) )
      ]_vars

\* C24 witness: a view call found no key stored when the entry of an
\* earlier session had turned stale; the community verdict has replaced it
\* and no request was sent.
C24_Witness ==
    /\ lastValidation.path = "no key"
    /\ lastValidation.found = "positive"
    /\ lastReturn.op \in ViewOps
    /\ lastReturn.net = 0
    /\ validationCache = Some(CachedValidation(NoLicenseResponse, now))
    /\ workspaceState = validationCache

\* C25. Transport failure with no cache entry returns a negative community
\* verdict with the network-error message and leaves the cache empty: the
\* network-error verdict is never written to the cache, so the next
\* validate(false) does not stop at the cache and attempts the network
\* again.
C25_FallbackNotCached ==
    [][ /\ ( /\ ValidationEnds
             /\ lastValidation'.fetch = "failed"
             /\ validationCache = Undefined )
           => ( /\ lastValidation'.verdict = FallbackResponse
                /\ IsDenial(lastValidation'.verdict)
                /\ validationCache' = Undefined
                /\ workspaceState' = workspaceState )
        /\ ( validationCache' # Undefined /\ validationCache' # validationCache )
           => validationCache'[1].response # FallbackResponse
        /\ ( ViewStarts /\ validationCache = Undefined )
           => GoesOnToReadKey
        /\ \A frame \in Frames :
             ( ~frame.force /\ ReadsKey(frame) /\ KeyStored )
             => calls' = Suspend(frame, [frame EXCEPT !.pc = "fetch",
                                                      !.key = secrets,
                                                      !.net = @ + 1])
      ]_vars

\* C25 witness: two view calls in a row, each with a key stored and no
\* cache entry, have sent a request that failed; the second was answered
\* with the network-error verdict and the cache is still empty.
C25_Witness ==
    /\ lastValidation.n = 2
    /\ lastReturn.n = 2
    /\ lastReturn.op \in ViewOps
    /\ lastReturn.net = 1
    /\ lastValidation.path = "community fallback"
    /\ lastValidation.verdict = FallbackResponse
    /\ lastValidation.found = "empty"
    /\ validationCache = Undefined
    /\ workspaceState = Undefined

\* C26. A server response with valid=false is written to the cache and
\* returned without any signature verification (signed or not), replacing
\* any earlier cached verdict, a positive one included; signature
\* verification is run only for responses with valid=true, which are
\* accepted exactly when they are authentic.
C26_DenialNeedsNoSignature ==
    [][ ( ValidationEnds /\ lastValidation'.fetch = "ok" )
        => IF lastValidation'.response.valid
           THEN lastValidation'.verdict.valid
                  = Authentic(lastValidation'.response, now)
           ELSE /\ lastValidation'.path = "accepted"
                /\ lastValidation'.verdict = lastValidation'.response
                /\ validationCache'
                     = Some(CachedValidation(lastValidation'.response, now))
                /\ workspaceState' = validationCache' ]_vars

\* C26 witness: a valid=false response that carries no signature has
\* replaced a cached positive verdict.
C26_Witness ==
    /\ lastValidation.fetch = "ok"
    /\ ~lastValidation.response.valid
    /\ lastValidation.response.signature = Undefined
    /\ lastValidation.found = "positive"
    /\ lastValidation.verdict = lastValidation.response
    /\ validationCache = Some(CachedValidation(lastValidation.response, now))

\* The verdict a validation owes to the answer `response` received at t,
\* which depends on that answer alone.
VerdictOf(response, t) ==
    IF response.valid /\ ~Authentic(response, t) THEN InvalidResponse
    ELSE response

\* C27. Revalidation after TTL: when a key is stored and the cache entry is
\* 24h old or older, validate(false) issues a network call, and if that
\* call succeeds the stale verdict is not what is returned: the verdict
\* comes from the new response and replaces the cache entry with a new
\* cachedAt, so a revoked license is denied at the first successful
\* validation after the TTL.
C27_RevalidationAfterTtl ==
    [][ /\ ( /\ ViewStarts
             /\ validationCache # Undefined
             /\ now - validationCache[1].timestamp >= CACHE_DURATION )
           => GoesOnToReadKey
        /\ \A frame \in Frames :
             ( frame.op = "view" /\ ReadsKey(frame) /\ KeyStored )
             => ( /\ calls' = Suspend(frame, [frame EXCEPT !.pc = "fetch",
                                                           !.key = secrets,
                                                           !.net = @ + 1])
                  /\ validationCache' = validationCache )
        /\ ( /\ ValidationEnds
             /\ ~lastValidation'.force
             /\ lastValidation'.fetch = "ok"
             /\ validationCache # Undefined )
           => ( /\ now - validationCache[1].timestamp >= CACHE_DURATION
                /\ lastValidation'.verdict
                     = VerdictOf(lastValidation'.response, now)
                /\ validationCache'
                     = Some(CachedValidation(lastValidation'.verdict, now))
                /\ workspaceState' = validationCache'
                /\ validationCache'[1].timestamp > validationCache[1].timestamp
                /\ ~lastValidation'.response.valid
                      => ( /\ ~lastValidation'.verdict.valid
                           /\ lastReturn'.op = "hasProAccess"
                                 => lastReturn'.value = FALSE ) ) ]_vars

\* C27 witness: with a key stored and a positive entry that had turned 24
\* hours old, hasProAccess sent a request, the issuer answered that the
\* license is no longer valid, and false was returned and cached.
C27_Witness ==
    /\ lastValidation.found = "positive"
    /\ ~lastValidation.force
    /\ lastValidation.fetch = "ok"
    /\ lastValidation.response = DeniedResponse(now)
    /\ lastReturn.op = "hasProAccess"
    /\ lastReturn.value = FALSE
    /\ lastReturn.net = 1
    /\ KeyStored
    /\ validationCache = Some(CachedValidation(DeniedResponse(now), now))
    /\ now = StartTime + CACHE_DURATION

\* C28. Activation ordering, when the host serializes its calls: for a
\* well-formed key, activateLicense first stores the key, then clears the
\* cache in memory and persisted, then runs a forced validation; no request
\* has been issued by the time the store settles, the request the
\* validation issues carries the key just stored, and the validation finds
\* the cache empty, so it returns no entry cached before the activation.
C28_ActivationOrdering ==
    [][ /\ \A frame \in Frames :
              ( /\ frame.op = "activateLicense"
                /\ frame.pc = "secrets.store"
                /\ Resumed(frame)
                /\ ~CallReturns )
              => /\ frame.net = 0
                 /\ secrets' = frame.arg
                 /\ validationCache' = Undefined
                 /\ workspaceState' = Undefined
                 /\ calls' = Suspend(frame, [frame EXCEPT !.pc = "secrets.get"])
        /\ \A frame \in BagToSet(calls') :
              ( frame.op = "activateLicense" /\ frame.pc = "fetch" )
              => /\ frame.key = frame.arg
                 /\ frame.net = 1
        /\ ( /\ ValidationEnds
             /\ \E frame \in Frames : frame.op = "activateLicense" /\ Resumed(frame) )
           => /\ lastValidation'.force
              /\ lastValidation'.found = "empty"
              /\ lastValidation'.path \notin { "cache hit", "cached fallback" }
      ]_vars

\* An activation of a new key over the key of an earlier session succeeded
\* on the issuer's answer to its one request.
C28_Witness ==
    /\ lastReturn.op = "activateLicense"
    /\ lastReturn.arg = Some(GoodKey)
    /\ lastReturn.value.success
    /\ lastReturn.net = 1
    /\ secrets = Some(GoodKey)
    /\ lastValidation.fetch = "ok"
    /\ lastValidation.found = "empty"
    /\ validationCache # Undefined
    /\ validationCache[1].response.valid

\* The signature field is not the standard base64 text of its bytes.
MalformedEncoding(signature) == "spelling" \in DOMAIN signature[1]

\* The signature bytes are not the issuer's signature over the signed
\* fields of the response.
Mismatch(response) ==
    \/ response.signature[1].signer # Issuer
    \/ response.signature[1].payload # Payload(response)

\* C29. Signature verification never aborts the caller: a malformed
\* signature encoding, a parse failure or a verification mismatch makes
\* verifyResponseSignature return false, and validate then takes the
\* invalid-signature path (the negative verdict, which it caches), not the
\* network-failure fallback path.
C29_RejectionNeverAborts ==
    [][ ( /\ lastReturn'.n # lastReturn.n
          /\ lastReturn'.op = "verifyResponseSignature"
          /\ LET response == lastReturn'.arg[1] IN
             \/ response.signature = Undefined
             \/ MalformedEncoding(response.signature)
             \/ Mismatch(response) )
        => ( /\ lastReturn'.outcome = "resolved"
             /\ lastReturn'.value = FALSE
             /\ lastReturn'.arg[1].valid
                => OnResponse(lastReturn'.arg[1], lastReturn'.at)
                     = [path |-> "invalid signature", verdict |-> InvalidResponse] )
      ]_vars

\* Verdicts of every tier, granted and denied, with and without a tier.
Verdicts ==
    { Response(valid, tier, Some({"x"}), Undefined, StartTime) :
        valid \in BOOLEAN,
        tier \in { Undefined, Some("community"), Some("pro"), Some("team") } }

\* An entitlement view returns in this step.
ViewReturns == lastReturn'.n # lastReturn.n /\ lastReturn'.op \in ViewOps

\* C30. The entitlement views are functions of the verdict their
\* validate(false) call resolved to: hasProAccess() is true exactly when
\* that verdict has valid=true and tier pro or team, getLicenseTier() is
\* the verdict's tier when valid=true and a tier is present and community
\* otherwise; the call leaves the stored key alone and changes the cache
\* only as validate(false) does, writing the verdict of an answered
\* request or of a missing key and nothing else.
C30_ViewsDeriveFromVerdict ==
    [][ /\ \A validation \in Verdicts :
              /\ Derive("hasProAccess", validation)
                   = ( validation.valid = TRUE
                       /\ validation.tier \in { << "pro" >>, << "team" >> } )
              /\ Derive("getLicenseTier", validation)
                   = IF validation.valid = TRUE /\ Len(validation.tier) = 1
                     THEN validation.tier[1] ELSE "community"
        /\ ( ViewReturns /\ ValidationEnds /\ lastValidation'.path # "threw" )
           => LET validation == lastValidation'.verdict
                  value == lastReturn'.value
              IN  /\ ~lastValidation'.force
                  /\ lastReturn'.op = "hasProAccess"
                     => value = ( validation.valid = TRUE
                                  /\ validation.tier \in { << "pro" >>, << "team" >> } )
                  /\ lastReturn'.op = "getLicenseTier"
                     => value = IF validation.valid = TRUE /\ Len(validation.tier) = 1
                                THEN validation.tier[1] ELSE "community"
        /\ ViewReturns
           => /\ ValidationEnds
              /\ secrets' = secrets
              /\ workspaceState' = validationCache'
                 \/ << validationCache', workspaceState' >>
                      = << validationCache, workspaceState >>
              /\ IF lastValidation'.path \in { "accepted", "invalid signature", "no key" }
                 THEN validationCache'
                        = << [response |-> lastValidation'.verdict, timestamp |-> now] >>
                 ELSE << validationCache', workspaceState' >>
                        = << validationCache, workspaceState >>
      ]_vars

\* hasProAccess returned true on a granted pro verdict the issuer sent.
C30_Witness ==
    /\ lastReturn.op = "hasProAccess"
    /\ lastReturn.value = TRUE
    /\ lastValidation.path = "accepted"
    /\ lastValidation.verdict.valid
    /\ lastValidation.verdict.tier = Some("pro")

\* Responses q and r carry the same signature and the same valid, tier,
\* features, expiresAt and timestamp.
SameSignedFields(q, r) ==
    /\ q.signature = r.signature
    /\ q.valid = r.valid
    /\ q.tier = r.tier
    /\ q.features = r.features
    /\ q.expiresAt = r.expiresAt
    /\ q.timestamp = r.timestamp

\* C31. The signature check covers only valid, tier, features, expiresAt
\* and timestamp: two responses that agree on these fields and on the
\* signature, verified at the same time, get the same result whatever
\* their other fields, such as message, contain.
C31_OnlySignedFieldsCount ==
    [][ ( /\ lastReturn'.n # lastReturn.n
          /\ lastReturn.op = "verifyResponseSignature"
          /\ lastReturn'.op = "verifyResponseSignature"
          /\ lastReturn'.at = lastReturn.at
          /\ SameSignedFields(lastReturn.arg[1], lastReturn'.arg[1]) )
        => lastReturn'.value = lastReturn.value ]_vars

\* A response whose message was changed after the issuer signed it has
\* been verified and accepted.
C31_Witness ==
    /\ lastReturn.op = "verifyResponseSignature"
    /\ lastReturn.n = 2
    /\ lastReturn.arg[1].message = Some("Welcome back")
    /\ lastReturn.arg[1].signature = Sign(Issuer, Payload(lastReturn.arg[1]))
    /\ lastReturn.value = TRUE

\* C32. Single-slot cache consistency: in every reachable state, the
\* initial one of a manager constructed over a persisted record included,
\* the in-memory cache entry and the persisted cache record are equal, both
\* absent or the same whole entry of one verdict and one cachedAt.
C32_SingleSlotConsistent ==
    /\ validationCache = workspaceState
    /\ validationCache # Undefined
       => /\ Len(validationCache) = 1
          /\ DOMAIN validationCache[1] = { "response", "timestamp" }
          /\ validationCache[1].timestamp \in StartTime..now

\* A verdict written in this session, after the clock moved, sits in both
\* the memory slot and the persisted slot.
C32_Witness ==
    /\ workspaceState # Undefined
    /\ workspaceState[1].timestamp > StartTime
    /\ workspaceState[1].response = lastValidation.verdict
    /\ validationCache = workspaceState

\* No call is in flight and at least one call has completed.
AfterACall == InFlight = 0 /\ Returned > 0

\* C33. When the host serializes its calls, after every call the cache
\* holds a valid=true verdict only if a license key is stored: a positive
\* cached verdict never outlives the removal of the key.
C33_PositiveCacheNeedsKey ==
    ( AfterACall /\ CachedPositive ) => KeyStored

\* C34. Rejecting a malformed key changes nothing: when activateLicense
\* fails the prefix check, the stored key and the cache entry, verdict and
\* cachedAt, in memory and persisted, are what they were before the call,
\* and no call in flight is touched.
C34_MalformedKeyChangesNothing ==
    [][ ( /\ CallReturns
          /\ lastReturn'.op = "activateLicense"
          /\ LacksPrefix(lastReturn'.arg[1]) )
        => ( /\ secrets' = secrets
             /\ validationCache' = validationCache
             /\ workspaceState' = workspaceState
             /\ calls' = calls
             /\ now' = now ) ]_vars

\* A malformed key was rejected while a key was stored and its pro verdict
\* cached; both are still there.
C34_Witness ==
    /\ lastReturn.op = "activateLicense"
    /\ LacksPrefix(lastReturn.arg[1])
    /\ ~lastReturn.value.success
    /\ KeyStored
    /\ CachedPositive
    /\ validationCache[1].response.tier = Some("pro")
    /\ lastValidation.n > 0

\* C35. refreshLicense, called by a host that serializes its calls, clears
\* the cache before it forces validation, so it never returns the verdict
\* cached before the call: when the request then fails it returns the
\* network-error community verdict and leaves the cache empty, in memory
\* and persisted, and the view call that follows is not served from the
\* cache.
C35_RefreshDropsCache ==
    [][ /\ ( /\ CallReturns
             /\ lastReturn'.op = "refreshLicense"
             /\ lastReturn'.outcome = "resolved" )
           => /\ lastValidation'.n # lastValidation.n
              /\ lastValidation'.found = "empty"
              /\ lastValidation'.path \notin { "cache hit", "cached fallback" }
              /\ lastValidation'.fetch = "failed"
                 => /\ lastReturn'.value = FallbackResponse
                    /\ validationCache' = Undefined
                    /\ workspaceState' = Undefined
        /\ ( /\ CallReturns
             /\ lastReturn.op = "refreshLicense"
             /\ lastReturn.outcome = "resolved"
             /\ lastValidation.fetch = "failed"
             /\ lastReturn'.op \in ViewOps )
           => lastValidation'.path # "cache hit"
      ]_vars

\* After a validation that cached its verdict, refreshLicense met a failing
\* request: it returned the network-error verdict and the cache is empty.
C35_Witness ==
    /\ lastReturn.op = "refreshLicense"
    /\ lastReturn.n = 2
    /\ lastValidation.n = 2
    /\ lastValidation.fetch = "failed"
    /\ lastReturn.value = FallbackResponse
    /\ KeyStored
    /\ validationCache = Undefined
    /\ workspaceState = Undefined

\* C36. activateLicense with a well-formed key while the network is
\* unreachable returns success=false with the network-error message and
\* ends with no key stored and an empty cache, in memory and persisted,
\* even when a different, previously validated key was stored and cached
\* as pro before the call: the store replaces that key and the cache is
\* cleared before the request is sent.
C36_OfflineActivationLeavesNothing ==
    [][ /\ ( /\ CallReturns
             /\ lastReturn'.op = "activateLicense"
             /\ ~LacksPrefix(lastReturn'.arg[1]) )
           => /\ lastReturn'.value
                   = [success |-> FALSE,
                      message |-> << "Network error - using Community tier" >>]
              /\ lastReturn'.net = 1
              /\ secrets' = Undefined
              /\ validationCache' = Undefined
              /\ workspaceState' = Undefined
        /\ \A frame \in Frames :
              ( /\ frame.op = "activateLicense"
                /\ frame.pc = "secrets.store"
                /\ Resumed(frame)
                /\ secrets = Some(StoredKey)
                /\ CachedPositive )
              => /\ secrets' = frame.arg
                 /\ secrets' # secrets
                 /\ validationCache' = Undefined
      ]_vars

\* An activation attempted while the network was down has returned: the
\* key it stored is gone and the cache is empty.
C36_Witness ==
    /\ lastReturn.op = "activateLicense"
    /\ lastReturn.arg = Some(GoodKey)
    /\ lastReturn.value.message = << "Network error - using Community tier" >>
    /\ lastReturn.net = 1
    /\ lastValidation.fetch = "failed"
    /\ secrets = Undefined
    /\ validationCache = Undefined
    /\ workspaceState = Undefined

\* C37. The entitlement views agree with each other on every verdict: for
\* the same cached verdict, getLicenseInfo().tier equals getLicenseTier(),
\* and whenever hasProAccess() is false because the verdict has
\* valid=false, getLicenseInfo().tier is community and getFeatures() is
\* empty.
C37_ViewsAgree ==
    validationCache # Undefined
    => LET validation == validationCache[1].response IN
       /\ Derive("getLicenseInfo", validation).tier
            = Derive("getLicenseTier", validation)
       /\ ( ~Derive("hasProAccess", validation) /\ ~validation.valid )
          => /\ Derive("getLicenseInfo", validation).tier = "community"
             /\ Derive("getFeatures", validation) = {}

\* C38. A manager constructed over a persisted cache record uses that
\* record like one it wrote itself: while the record is still there, the
\* first validate(false) of a host that serializes its calls, made within
\* 24h of the record's cachedAt, returns the persisted verdict with no
\* network call and no signature re-verification (the verdict is returned
\* whether or not it would still verify), and one made after 24h whose
\* request fails returns it as fallback; the record stays as it is.
C38_PersistedRecordIsUsed ==
    [][ ( /\ ValidationEnds
          /\ lastValidation.n = 0
          /\ ~lastValidation'.force
          /\ workspaceState # Undefined )
        => LET record == workspaceState[1] IN
           IF now - record.timestamp < CACHE_DURATION
           THEN /\ lastValidation'.path = "cache hit"
                /\ lastValidation'.verdict = record.response
                /\ lastValidation'.fetch = "none"
                /\ lastReturn'.net = 0
                /\ validationCache' = << record >>
                /\ workspaceState' = << record >>
           ELSE lastValidation'.fetch = "failed"
                => /\ lastValidation'.path = "cached fallback"
                   /\ lastValidation'.verdict = record.response
                   /\ validationCache' = << record >>
                   /\ workspaceState' = << record >>
      ]_vars

\* The first view call of the session was answered from the record of an
\* earlier session, without a request, at a time when the signed timestamp
\* of that verdict is too old to verify again.
C38_Witness ==
    /\ lastValidation.n = 1
    /\ lastReturn.n = 1
    /\ lastReturn.op = "hasProAccess"
    /\ lastReturn.value = TRUE
    /\ lastReturn.net = 0
    /\ lastValidation.path = "cache hit"
    /\ workspaceState # Undefined
    /\ lastValidation.verdict = workspaceState[1].response
    /\ now - workspaceState[1].timestamp < CACHE_DURATION
    /\ ~VerifyResponseSignature(lastValidation.verdict, now)

====
